---------------------------- MODULE Spec2Model ----------------------------
(***************************************************************************)
(* A model of danlp/datasets/daned.py: the DaNED dataset loader.           *)
(*                                                                         *)
(* State: the cached dataset directory on disk (two JSON sidecars and the  *)
(* three tab-separated partition files), the loader's two in-memory maps,  *)
(* the tables the caller holds from its latest load, the number of times   *)
(* the online knowledge-graph collaborator was asked about each QID, and   *)
(* the latest call with its arguments and outcome.                         *)
(*                                                                         *)
(* Python values:                                                          *)
(*   str            a TLA+ string, joined with \o                          *)
(*   list           a sequence                                             *)
(*   dict           a function whose DOMAIN is the set of keys             *)
(*   None / NaN     <<>> ; a value v that may be None is written <<v>>,    *)
(*                  so that None differs from the empty list and from ""   *)
(*   str-or-list    the properties get_kg_context_from_qid returns carry   *)
(*                  their Python type: Str(s) or List(l)                   *)
(***************************************************************************)
EXTENDS Naturals, Sequences, FiniteSets

VARIABLES disk, properties, descriptions, tables, lookups, call

vars == <<disk, properties, descriptions, tables, lookups, call>>

---------------------------------------------------------------------------
(* Bounds *)

\* most records in the partition files of one dataset directory, all together
MaxRows == 2
\* most invocations of the online collaborator in one behaviour
MaxOnline == 2

---------------------------------------------------------------------------
(* Values *)

None == <<>>
NaN == <<>>
Some(v) == <<v>>
Str(s) == [type |-> "str", value |-> s]
List(l) == [type |-> "list", value |-> l]

QIDs == {"Q1", "Q2", "Q999"}

\* the loop order of load_with_pandas
Parts == <<"train", "dev", "test">>

\* lists of [property, value] pairs, either member possibly null
PropsP1 == << <<Some("p1"), Some("v1")>>, <<None, Some("v2")>> >>
PropsWriter == << <<Some("occupation"), Some("writer")>> >>
PropsOnline == << <<Some("p"), Some("v")>> >>

\* what get_kg_context_from_wikidata_qid may do: raise, or return a pair
Replies ==
    { [raises |-> TRUE],
      [raises |-> FALSE, properties |-> PropsOnline, description |-> "desc"] }

---------------------------------------------------------------------------
(* The dataset directory *)

\* A JSON object as written in the file: its members in order, each
\* <<key, value>>; a key may be repeated.
PropsTexts ==
    { <<>>,
      << <<"Q1", PropsP1>> >>,
      << <<"Q1", PropsWriter>>, <<"Q2", <<>>>> >>,
      << <<"Q1", PropsWriter>>, <<"Q1", PropsP1>> >> }

DescTexts ==
    { <<>>,
      << <<"Q1", "d1">> >>,
      << <<"Q2", "d2">> >>,
      << <<"Q1", "d0">>, <<"Q2", "d2">>, <<"Q1", "d1">> >> }

\* The cell texts pandas reads as a missing value (a subset of its defaults).
NaTexts == {"", "NA"}

\* One line of a partition file: the texts of its three cells.
Line(q, s, c) == [qid |-> q, sentence |-> s, class |-> c]

Lines ==
    { Line("Q1", "s1", "1"),
      Line("Q2", "s1", "0"),
      Line("Q999", "s2", "1"),
      Line("Q1", "", "0"),
      Line("NA", "s2", "1") }

Absent == [exists |-> FALSE, lines |-> <<>>]
File(ls) == [exists |-> TRUE, lines |-> ls]

LinesUpTo(n) == UNION { [1..k -> Lines] : k \in 0..n }

\* every choice of the three partition files holding at most n lines together
PartitionFiles(n) ==
    { f \in [{"train", "dev", "test"} -> {Absent} \cup { File(ls) : ls \in LinesUpTo(n) }] :
        Len(f["train"].lines) + Len(f["dev"].lines) + Len(f["test"].lines) <= n }

SamplePartitions ==
    [ train |-> File(<< Line("Q1", "s1", "1"), Line("Q999", "s1", "0") >>),
      dev   |-> File(<< Line("Q2", "s2", "1") >>),
      test  |-> File(<< Line("Q1", "", "0"), Line("Q2", "s1", "0") >>) ]

\* Q1 is in both maps, Q2 in the properties map alone (with no pairs), Q999 in neither
SampleProps == << <<"Q1", PropsP1>>, <<"Q2", <<>>>> >>
SampleDesc == << <<"Q1", "d1">> >>

Dir(p, d, f) == [props |-> p, desc |-> d, files |-> f]

---------------------------------------------------------------------------
(* json.load, dict.get, str.join *)

\* json.load of an object: a dict; the last member with a key wins
json_load(text) ==
    [ k \in { text[i][1] : i \in DOMAIN text } |->
        LET last == CHOOSE i \in DOMAIN text :
                        /\ text[i][1] = k
                        /\ \A j \in DOMAIN text : j > i => text[j][1] # k
        IN text[last][2] ]

\* dict.get asked with a key that is never the stored one
Get_miss(map, key, default) == default

\* dict.get(key, default)
Get(map, key, default) == IF key \in DOMAIN map THEN map[key] ELSE default

\* sep.join(strs)
RECURSIVE Join(_, _)
Join(strs, sep) ==
    IF strs = <<>> THEN ""
    ELSE IF Len(strs) = 1 THEN strs[1]
    ELSE strs[1] \o sep \o Join(Tail(strs), sep)


---------------------------------------------------------------------------
(* pandas.read_csv, DataFrame.dropna, Series.apply *)

\* a text cell as read_csv parses it
Cell(text) == IF text \in NaTexts THEN NaN ELSE Some(text)

\* a cell of the numeric 'class' column
Num(text) == IF text \in NaTexts THEN NaN ELSE Some(IF text = "1" THEN 1 ELSE 0)

\* pd.read_csv(path, sep='\t', encoding='utf-8') of a file that exists
read_csv(file) ==
    [ i \in DOMAIN file.lines |->
        [ qid      |-> Cell(file.lines[i].qid),
          sentence |-> Cell(file.lines[i].sentence),
          class    |-> Num(file.lines[i].class) ] ]

HasNa(row) == row.qid = NaN \/ row.sentence = NaN \/ row.class = NaN

\* dropna(subset=['qid']): only a missing identifier drops the row
dropna_qid(rows) == SelectSeq(rows, LAMBDA r : r.qid # NaN)

\* DataFrame.dropna(): the rows with no missing cell, in order
dropna(rows) == SelectSeq(rows, LAMBDA r : ~HasNa(r))

\* map.get(x, []): the default of get_kg_context_from_qid used in the join
Lookup_default(map, cell) ==
    IF cell = NaN THEN None
    ELSE Get([k \in DOMAIN map |-> Some(map[k])], cell[1], Some(<<>>))

\* lambda x: map.get(x, None), applied to one cell of the 'qid' column
Lookup(map, cell) ==
    IF cell = NaN THEN None
    ELSE Get([k \in DOMAIN map |-> Some(map[k])], cell[1], None)

\* data[part]['kg'] = data[part]['qid'].apply(...)
WithKg(rows, props) ==
    [ i \in DOMAIN rows |->
        [ qid |-> rows[i].qid, sentence |-> rows[i].sentence, class |-> rows[i].class,
          kg |-> Lookup(props, rows[i].qid) ] ]

\* data[part]['description'] = data[part]['qid'].apply(...)
WithDescription(rows, descs) ==
    [ i \in DOMAIN rows |->
        [ qid |-> rows[i].qid, sentence |-> rows[i].sentence, class |-> rows[i].class,
          kg |-> rows[i].kg,
          description |-> Lookup(descs, rows[i].qid) ] ]

\* one pass of the loop body for a partition whose file exists
LoadPart(file, props, descs) == WithDescription(WithKg(dropna(read_csv(file)), props), descs)

\* return data['train'], data['dev'], data['test']
Return(data) == << data["train"], data["dev"], data["test"] >>

\* the loop with the read guarded: a partition without a file is left empty
RECURSIVE LoadLoop_skip(_, _, _, _, _)
LoadLoop_skip(i, data, files, props, descs) ==
    IF i > Len(Parts)
    THEN [status |-> "ok", opened |-> Parts, returned |-> Some(Return(data))]
    ELSE LoadLoop_skip(i + 1,
                       [ p \in DOMAIN data \cup {Parts[i]} |->
                           IF p # Parts[i] THEN data[p]
                           ELSE IF files[Parts[i]].exists
                           THEN LoadPart(files[Parts[i]], props, descs)
                           ELSE <<>> ],
                       files, props, descs)

\* The loop over the partitions from the i-th on. read_csv raises
\* FileNotFoundError for a file that is absent, which ends the call: the
\* spec's MissingPartitionFile. `opened` lists the files the call tried.
RECURSIVE LoadLoop(_, _, _, _, _)
LoadLoop(i, data, files, props, descs) ==
    IF i > Len(Parts)
    THEN [status |-> "ok", opened |-> Parts, returned |-> Some(Return(data))]
    ELSE IF ~files[Parts[i]].exists
    THEN [status |-> "FileNotFoundError", opened |-> SubSeq(Parts, 1, i), returned |-> None]
    ELSE LoadLoop(i + 1,
                  [ p \in DOMAIN data \cup {Parts[i]} |->
                      IF p = Parts[i] THEN LoadPart(files[Parts[i]], props, descs)
                      ELSE data[p] ],
                  files, props, descs)

---------------------------------------------------------------------------
(* get_kg_context_from_qid's pieces *)

\* p if p != None else ""
Member(m) == IF m # None THEN m[1] ELSE ""

\* the pairs joined last to first
Flatten_reversed(props) ==
    Join([ i \in DOMAIN props |->
             Join(<< Member(props[Len(props) + 1 - i][1]),
                     Member(props[Len(props) + 1 - i][2]) >>, " ") ], " ")

\* " ".join([" ".join([p or "", v or ""]) for (p, v) in properties])
Flatten(props) ==
    Join([ i \in DOMAIN props |-> Join(<< Member(props[i][1]), Member(props[i][2]) >>, " ") ], " ")

\* the online search never taken
NeedsOnline_never(props, qid, allow_online_search) == FALSE

\* the flag forgotten: every QID unknown to the properties map is searched
NeedsOnline_unknown(props, qid, allow_online_search) == qid \notin DOMAIN props

\* the membership test forgotten: the flag alone decides
NeedsOnline_allow(props, qid, allow_online_search) == allow_online_search

\* if qid not in self.properties and allow_online_search
NeedsOnline(props, qid, allow_online_search) == qid \notin DOMAIN props /\ allow_online_search

\* if not output_as_dictionary: properties = <the flattened string>
Shape(props, output_as_dictionary) ==
    IF ~output_as_dictionary THEN Str(Flatten(props)) ELSE List(props)

Total(counts) == counts["Q1"] + counts["Q2"] + counts["Q999"]

---------------------------------------------------------------------------
(* Operations *)

\* the loader's state once __init__ has run on directory d
Constructed(d) ==
    /\ properties = json_load(d.props)
    /\ descriptions = json_load(d.desc)

\* DaNED(cache_dir): a loader built (again) from the same cached directory
Construct ==
    /\ properties' = json_load(disk.props)
    /\ descriptions' = json_load(disk.desc)
    /\ call' = [op |-> "init"]
    /\ UNCHANGED <<disk, tables, lookups>>

\* the join done with dict.pop: a QID looked up leaves the two maps
load_with_pandas_pop ==
    LET r == LoadLoop(1, <<>>, disk.files, properties, descriptions)
        used == IF r.status # "ok" THEN {}
                ELSE UNION { { r.returned[1][i][j].qid[1] : j \in DOMAIN r.returned[1][i] } :
                             i \in 1..3 }
    IN /\ call' = [op |-> "load", status |-> r.status, opened |-> r.opened,
                   returned |-> r.returned, again |-> tables # None]
       /\ tables' = IF r.status = "ok" THEN r.returned ELSE tables
       /\ properties' = [k \in DOMAIN properties \ used |-> properties[k]]
       /\ descriptions' = [k \in DOMAIN descriptions \ used |-> descriptions[k]]
       /\ UNCHANGED <<disk, lookups>>

\* load_with_pandas(): `tables` is what the caller holds afterwards
load_with_pandas ==
    LET r == LoadLoop(1, <<>>, disk.files, properties, descriptions)
    IN /\ call' = [op |-> "load", status |-> r.status, opened |-> r.opened,
                   returned |-> r.returned, again |-> tables # None]
       /\ tables' = IF r.status = "ok" THEN r.returned ELSE tables
       /\ UNCHANGED <<disk, properties, descriptions, lookups>>

\* the online answer kept in the two maps for the next call
get_kg_context_from_qid_cache(qid, output_as_dictionary, allow_online_search) ==
    IF NeedsOnline(properties, qid, allow_online_search)
    THEN /\ Total(lookups) < MaxOnline
         /\ lookups' = [lookups EXCEPT ![qid] = @ + 1]
         /\ \E reply \in Replies :
              /\ call' = [op |-> "get", qid |-> qid,
                          output_as_dictionary |-> output_as_dictionary,
                          allow_online_search |-> allow_online_search,
                          invoked |-> TRUE, reply |-> reply,
                          returned |->
                            IF reply.raises THEN None
                            ELSE Some(<< Shape(reply.properties, output_as_dictionary),
                                         reply.description >>)]
              /\ properties' =
                    IF reply.raises THEN properties
                    ELSE [k \in DOMAIN properties \cup {qid} |->
                            IF k = qid THEN reply.properties ELSE properties[k]]
              /\ descriptions' =
                    IF reply.raises THEN descriptions
                    ELSE [k \in DOMAIN descriptions \cup {qid} |->
                            IF k = qid THEN reply.description ELSE descriptions[k]]
         /\ UNCHANGED <<disk, tables>>
    ELSE /\ lookups' = lookups
         /\ call' = [op |-> "get", qid |-> qid,
                     output_as_dictionary |-> output_as_dictionary,
                     allow_online_search |-> allow_online_search,
                     invoked |-> FALSE, reply |-> None,
                     returned |->
                       Some(<< Shape(Get(properties, qid, <<>>), output_as_dictionary),
                               Get(descriptions, qid, "") >>)]
         /\ UNCHANGED <<disk, properties, descriptions, tables>>

\* get_kg_context_from_qid(qid, output_as_dictionary, allow_online_search)
get_kg_context_from_qid(qid, output_as_dictionary, allow_online_search) ==
    /\ IF NeedsOnline(properties, qid, allow_online_search)
       THEN /\ Total(lookups) < MaxOnline
            /\ lookups' = [lookups EXCEPT ![qid] = @ + 1]
            /\ \E reply \in Replies :
                 call' = [op |-> "get", qid |-> qid,
                          output_as_dictionary |-> output_as_dictionary,
                          allow_online_search |-> allow_online_search,
                          invoked |-> TRUE, reply |-> reply,
                          returned |->
                            IF reply.raises THEN None
                            ELSE Some(<< Shape(reply.properties, output_as_dictionary),
                                         reply.description >>)]
       ELSE /\ lookups' = lookups
            /\ call' = [op |-> "get", qid |-> qid,
                        output_as_dictionary |-> output_as_dictionary,
                        allow_online_search |-> allow_online_search,
                        invoked |-> FALSE, reply |-> None,
                        returned |->
                          Some(<< Shape(Get(properties, qid, <<>>), output_as_dictionary),
                                  Get(descriptions, qid, "") >>)]
    /\ UNCHANGED <<disk, properties, descriptions, tables>>

---------------------------------------------------------------------------
(* Specifications *)

Fresh ==
    /\ Constructed(disk)
    /\ tables = None
    /\ lookups = [q \in QIDs |-> 0]
    /\ call = [op |-> "init"]

\* every sidecar pair, beside fixed partition files
Init ==
    /\ disk \in { Dir(p, d, SamplePartitions) : p \in PropsTexts, d \in DescTexts }
    /\ Fresh

\* every choice of partition files, beside fixed sidecars
InitPartitions ==
    /\ disk \in { Dir(SampleProps, SampleDesc, f) : f \in PartitionFiles(MaxRows) }
    /\ Fresh

Next ==
    \/ Construct
    \/ load_with_pandas
    \/ \E qid \in QIDs, d \in BOOLEAN, o \in BOOLEAN : get_kg_context_from_qid(qid, d, o)

Spec == Init /\ [][Next]_vars

SpecPartitions == InitPartitions /\ [][Next]_vars

---------------------------------------------------------------------------
(* Properties of get_kg_context_from_qid, checked under Spec *)

\* C1: a call for a QID of the properties map with allow_online_search=false
\* returns the stored description ("" when there is none) and, with
\* output_as_dictionary=true, the stored list of pairs; the online
\* collaborator is not invoked.
C1_StoredValueOffline ==
    (call.op = "get" /\ call.qid \in DOMAIN properties /\ ~call.allow_online_search) =>
        /\ ~call.invoked
        /\ call.returned # None
        /\ call.returned[1][2] =
             (IF call.qid \in DOMAIN descriptions THEN descriptions[call.qid] ELSE "")
        /\ call.output_as_dictionary => call.returned[1][1] = List(properties[call.qid])

C1_Witness ==
    /\ call.op = "get" /\ call.qid = "Q1" /\ ~call.allow_online_search
    /\ call.output_as_dictionary
    /\ "Q1" \in DOMAIN properties /\ "Q1" \notin DOMAIN descriptions
    /\ call.returned = Some(<< List(PropsP1), "" >>)

\* C2 as stated: the list [("p1","v1"), (None,"v2")] flattens to "p1 v1 v2",
\* with no doubled space.
C2_Original ==
    (/\ call.op = "get" /\ ~call.invoked /\ ~call.output_as_dictionary
     /\ call.qid \in DOMAIN properties /\ properties[call.qid] = PropsP1) =>
        call.returned[1][1] = Str("p1 v1 v2")

\* C2 amended: flattening keeps the order of the pairs and puts one space
\* between the two members of a pair and between pairs, also next to the
\* empty string that stands for an absent member: [("p1","v1"), (None,"v2")]
\* gives "p1 v1  v2", [("occupation","writer")] gives "occupation writer",
\* [("p","v")] gives "p v" and [] gives "".
C2_Flattened ==
    (call.op = "get" /\ ~call.output_as_dictionary /\ call.returned # None) =>
        LET given == IF call.invoked THEN call.reply.properties
                     ELSE IF call.qid \in DOMAIN properties THEN properties[call.qid]
                     ELSE <<>>
        IN /\ given = PropsP1 => call.returned[1][1] = Str("p1 v1  v2")
           /\ given = PropsWriter => call.returned[1][1] = Str("occupation writer")
           /\ given = PropsOnline => call.returned[1][1] = Str("p v")
           /\ given = <<>> => call.returned[1][1] = Str("")

C2_Witness ==
    /\ call.op = "get" /\ ~call.output_as_dictionary /\ ~call.invoked
    /\ call.qid \in DOMAIN properties /\ properties[call.qid] = PropsP1
    /\ call.returned[1][1] = Str("p1 v1  v2")

\* C3 as stated: for a QID in neither map, with allow_online_search=true and
\* output_as_dictionary at its default (false), the pair the collaborator
\* returns, ([("p","v")], "desc"), is returned as it is.
C3_Original ==
    (/\ call.op = "get" /\ call.allow_online_search /\ ~call.output_as_dictionary
     /\ call.qid \notin DOMAIN properties /\ call.qid \notin DOMAIN descriptions) =>
        /\ call.invoked
        /\ ~call.reply.raises => call.returned = Some(<< List(PropsOnline), "desc" >>)

\* C3 amended: for a QID in neither map, with allow_online_search=true, the
\* collaborator is asked and, when it returns ([("p","v")], "desc"), the call
\* returns its description "desc" and its properties: flattened to "p v" with
\* output_as_dictionary at its default (false), the list itself with
\* output_as_dictionary=true. The local maps are bypassed.
C3_OnlineResult ==
    (/\ call.op = "get" /\ call.allow_online_search
     /\ call.qid \notin DOMAIN properties /\ call.qid \notin DOMAIN descriptions) =>
        /\ call.invoked
        /\ ~call.reply.raises =>
             call.returned = Some(<< IF call.output_as_dictionary THEN List(PropsOnline)
                                     ELSE Str("p v"),
                                     "desc" >>)

C3_Witness ==
    /\ call.op = "get" /\ call.qid = "Q999" /\ call.allow_online_search
    /\ ~call.output_as_dictionary /\ call.invoked
    /\ call.returned = Some(<< Str("p v"), "desc" >>)

\* C4: a call for a QID in neither map with allow_online_search=false
\* returns ("", "") with output_as_dictionary=false and ([], "") with
\* output_as_dictionary=true; it raises nothing and asks nobody.
C4_UnknownOffline ==
    (/\ call.op = "get" /\ ~call.allow_online_search
     /\ call.qid \notin DOMAIN properties /\ call.qid \notin DOMAIN descriptions) =>
        /\ ~call.invoked
        /\ call.returned = Some(<< IF call.output_as_dictionary THEN List(<<>>) ELSE Str(""),
                                   "" >>)

C4_Witness ==
    /\ call.op = "get" /\ call.qid = "Q999" /\ ~call.allow_online_search
    /\ ~call.output_as_dictionary
    /\ call.returned = Some(<< Str(""), "" >>)

\* C8: no call changes the properties map or the descriptions map; an online
\* answer is not kept, so asking again for the same unknown QID with
\* allow_online_search=true invokes the collaborator again.
C8_MapsNeverMutated ==
    [][ /\ properties' = properties
        /\ descriptions' = descriptions
        /\ (/\ call.op = "get" /\ call.invoked
            /\ call'.op = "get" /\ call'.qid = call.qid /\ call'.allow_online_search) =>
               /\ call'.invoked
               /\ lookups'[call.qid] = lookups[call.qid] + 1 ]_vars

C8_Witness ==
    /\ call.op = "get" /\ call.invoked /\ ~call.reply.raises
    /\ lookups[call.qid] = 2
    /\ call.qid \notin DOMAIN properties
    /\ tables # None

C10_Decision ==
    call.op = "get" =>
        /\ call.invoked <=> (call.qid \notin DOMAIN properties /\ call.allow_online_search)
        /\ (call.invoked /\ call.reply.raises) => call.returned = None
        /\ (call.invoked /\ ~call.reply.raises) =>
             (call.returned # None /\ call.returned[1][2] = call.reply.description)
        /\ (call.qid \notin DOMAIN properties /\ ~call.allow_online_search) =>
             /\ call.returned # None
             /\ call.returned[1][2] =
                  (IF call.qid \in DOMAIN descriptions THEN descriptions[call.qid] ELSE "")

C10_Once ==
    /\ (call'.op = "get" /\ call'.invoked) =>
          lookups' = [lookups EXCEPT ![call'.qid] = @ + 1]
    /\ ~(call'.op = "get" /\ call'.invoked) => lookups' = lookups

\* C10: the collaborator is invoked, once, exactly when the QID is not in the
\* properties map and allow_online_search is true, whatever the descriptions
\* map holds: for a QID only the descriptions map knows, the stored
\* description is returned without the flag and the collaborator's with it;
\* when the collaborator raises, the call returns nothing.
C10_OnlineDecision == []C10_Decision /\ [][C10_Once]_vars

C10_Witness ==
    /\ call.op = "get" /\ call.qid = "Q2" /\ call.allow_online_search /\ call.invoked
    /\ "Q2" \notin DOMAIN properties
    /\ "Q2" \in DOMAIN descriptions /\ descriptions["Q2"] = "d2"
    /\ call.returned # None /\ call.returned[1][2] = "desc"
    /\ lookups["Q2"] = 1

---------------------------------------------------------------------------
(* Properties of load_with_pandas, checked under SpecPartitions *)

AllPresent == \A part \in {"train", "dev", "test"} : disk.files[part].exists

PartOf(i) == <<"train", "dev", "test">>[i]

Expected(map, qid) == IF qid \in DOMAIN map THEN Some(map[qid]) ELSE None

\* C5: the tables come back in the order train, dev, test; in every row 'kg'
\* is properties[qid], or null for a qid the properties map lacks, and
\* 'description' is descriptions[qid], or null for a qid the descriptions
\* map lacks, each decided on its own; an unknown qid fails nothing.
C5_Enrichment ==
    call.op = "load" =>
        /\ AllPresent => call.status = "ok"
        /\ call.status = "ok" =>
             /\ call.returned # None /\ Len(call.returned[1]) = 3
             /\ \A i \in 1..3 : \A j \in DOMAIN call.returned[1][i] :
                  LET row == call.returned[1][i][j]
                  IN /\ row.kg = Expected(properties, row.qid[1])
                     /\ row.description = Expected(descriptions, row.qid[1])
                     /\ \E k \in DOMAIN disk.files[PartOf(i)].lines :
                          /\ disk.files[PartOf(i)].lines[k].qid = row.qid[1]
                          /\ disk.files[PartOf(i)].lines[k].sentence = row.sentence[1]

C5_Witness ==
    /\ call.op = "load" /\ call.status = "ok"
    /\ Len(call.returned[1][1]) = 1 /\ Len(call.returned[1][3]) = 1
    /\ call.returned[1][1][1].kg = Some(PropsP1)
    /\ call.returned[1][1][1].description = Some("d1")
    /\ call.returned[1][3][1].kg = Some(<<>>)
    /\ call.returned[1][3][1].description = None

Complete(line) ==
    line.qid \notin NaTexts /\ line.sentence \notin NaTexts /\ line.class \notin NaTexts

\* C6: of each partition file, the records with a missing field are dropped
\* and the others are kept, once each and in their order, with nothing
\* raised; no returned row lacks its qid, sentence or class.
C6_DropsIncomplete ==
    call.op = "load" =>
        /\ AllPresent => call.status = "ok"
        /\ call.status = "ok" =>
             \A i \in 1..3 :
                LET kept == SelectSeq(disk.files[PartOf(i)].lines, Complete)
                    table == call.returned[1][i]
                IN /\ Len(table) = Len(kept)
                   /\ \A j \in DOMAIN table :
                        /\ table[j].qid = Some(kept[j].qid)
                        /\ table[j].sentence = Some(kept[j].sentence)
                        /\ table[j].class = Some(IF kept[j].class = "1" THEN 1 ELSE 0)

C6_Witness ==
    /\ call.op = "load" /\ call.status = "ok"
    /\ Len(disk.files["train"].lines) = 2
    /\ ~Complete(disk.files["train"].lines[1])
    /\ Complete(disk.files["train"].lines[2])
    /\ Len(call.returned[1][1]) = 1

\* C7: a load that follows an earlier load of the same directory, by the
\* same loader or by one constructed anew, with any calls of
\* get_kg_context_from_qid in between, returns the tables the earlier one
\* returned; no call changes the files on disk.
C7_Idempotent ==
    [][ /\ disk' = disk
        /\ (call'.op = "load" /\ call'.status = "ok" /\ tables # None) =>
              (call'.returned = tables /\ tables' = tables) ]_vars

C7_Witness ==
    /\ call.op = "load" /\ call.status = "ok" /\ call.again
    /\ Total(lookups) > 0
    /\ Len(tables[1][1]) > 0 /\ Len(tables[1][2]) > 0

C9_Failure ==
    call.op = "load" =>
        LET missing == { i \in 1..3 : ~disk.files[PartOf(i)].exists }
        IN missing # {} =>
             LET first == CHOOSE i \in missing : \A j \in missing : i <= j
             IN /\ call.status = "FileNotFoundError"
                /\ call.returned = None
                /\ call.opened = SubSeq(<<"train", "dev", "test">>, 1, first)

C9_NoEffect ==
    (call'.op = "load" /\ call'.status # "ok") =>
        /\ tables' = tables
        /\ properties' = properties
        /\ descriptions' = descriptions

\* C9: when a partition's file is absent, load_with_pandas fails with the
\* missing-file error at the first such partition in the order train, dev,
\* test: the later files are not opened, no table is returned, also none of
\* the partitions read before, and the two maps stay as they were.
C9_MissingPartitionFile == []C9_Failure /\ [][C9_NoEffect]_vars

C9_Witness ==
    /\ call.op = "load" /\ call.status = "FileNotFoundError"
    /\ call.opened = <<"train", "dev">>
    /\ Len(disk.files["train"].lines) > 0
    /\ call.returned = None

===========================================================================
